---- MODULE Spec2Model ----
(***************************************************************************)
(* Model of the Canvas quiz runner: src/src/login.js (loginToCanvas) and   *)
(* src/src/scraper.js (runCanvasScraper, handleDiagnostic).                *)
(*                                                                         *)
(* Every await of the source is one action; the synchronous code between   *)
(* two awaits belongs to the action of the await that precedes it.  The    *)
(* page, the browser, the file system and the vision model are external:   *)
(* each of their operations either succeeds or throws, chosen freely.      *)
(***************************************************************************)
EXTENDS Integers, Sequences, FiniteSets, TLC

(***************************************************************************)
(* Bounds of the model.                                                    *)
(***************************************************************************)
MaxTotal == 3
MaxOptions == 2
MaxAnswers == 2
MaxTextLen == 2

(***************************************************************************)
(* JavaScript values of the fields of the parsed analysis.  A value is     *)
(* null, undefined (the field is missing), a string or an array of         *)
(* strings; v holds the string (one element) or the array's elements.      *)
(***************************************************************************)
Labels == {"", "A", "B"}

SeqsUpTo(S, n) == UNION {[1..k -> S] : k \in 0..n}

IsInjective(s) == \A a, b \in DOMAIN s : s[a] = s[b] => a = b

JsNull == [t |-> "null", v |-> <<>>]
JsUndefined == [t |-> "undefined", v |-> <<>>]
JsString(l) == [t |-> "string", v |-> <<l>>]
JsArray(s) == [t |-> "array", v |-> s]

\* Array.isArray(x)
IsArray(x) == x.t = "array"

\* typeof x === 'string'
IsString(x) == x.t = "string"

\* the truthiness of x: null, undefined and '' are falsy, every array is truthy
TruthyMut(x) == x.t # "null" /\ x.t # "undefined"

Truthy(x) ==
    \/ x.t = "array"
    \/ x.t = "string" /\ x.v[1] # ""

QuestionTypes ==
    {"multiple-choice-single", "multiple-choice", "multiple-choice-multiple",
     "free-response", "other", "undefined"}

\* the option texts of one question are distinct
OptionValues ==
    {JsNull, JsUndefined}
        \cup {JsArray(s) : s \in {o \in SeqsUpTo(Labels, MaxOptions) : IsInjective(o)}}

AnswerValues ==
    {JsNull, JsUndefined}
        \cup {JsString(l) : l \in Labels}
        \cup {JsArray(s) : s \in SeqsUpTo(Labels, MaxAnswers)}

\* the objects JSON.parse can return for the model's response
Analyses ==
    [questionType : QuestionTypes, options : OptionValues, correctAnswer : AnswerValues]

NoAnalysis ==
    [questionType |-> "unset", options |-> JsUndefined, correctAnswer |-> JsUndefined]

\* what the call of the vision model can give: the call rejects, the response
\* has no content, the content is the empty string, the content is not JSON,
\* or the content is a JSON object
FailureKinds == {"api_error", "no_content", "empty", "invalid_json"}

Responses ==
    {[kind |-> k, a |-> NoAnalysis] : k \in FailureKinds}
        \cup {[kind |-> "object", a |-> a] : a \in Analyses}

\* scraper.js 86-104: the error the analysis step throws for response r, "none"
\* if it throws none; the parsed object is not validated
AnalysisErrorValidatingMut(r) ==
    IF r.kind = "api_error" THEN "llm_call"
    ELSE IF r.kind \in {"no_content", "empty"} THEN "llm_no_content"
    ELSE IF r.kind = "invalid_json" \/ r.a.questionType = "undefined" THEN "llm_parse"
    ELSE "none"

AnalysisError(r) ==
    IF r.kind = "api_error" THEN "llm_call"
    ELSE IF r.kind \in {"no_content", "empty"} THEN "llm_no_content"
    ELSE IF r.kind = "invalid_json" THEN "llm_parse"
    ELSE "none"

(***************************************************************************)
(* parseInt(text, 10) on the text of the question-count element.           *)
(***************************************************************************)
DigitChars == <<"0", "1", "2", "3", "4", "5", "6", "7", "8", "9">>
Digits == {DigitChars[k] : k \in 1..Len(DigitChars)}
Chars == Digits \cup {" ", "-", "x"}
CountTexts == SeqsUpTo(Chars, MaxTextLen)

DigitVal(c) == (CHOOSE k \in 1..Len(DigitChars) : DigitChars[k] = c) - 1

NaN == [nan |-> TRUE, n |-> 0]
Num(n) == [nan |-> FALSE, n |-> n]

RECURSIVE SkipSpaces(_)
SkipSpaces(s) ==
    IF s # <<>> /\ Head(s) = " " THEN SkipSpaces(Tail(s)) ELSE s

\* the value of the longest prefix of digits of s, acc being the value so far
RECURSIVE DigitsValue(_, _)
DigitsValue(s, acc) ==
    IF s # <<>> /\ Head(s) \in Digits
    THEN DigitsValue(Tail(s), 10 * acc + DigitVal(Head(s)))
    ELSE acc

ParseInt(text) ==
    LET t == SkipSpaces(text)
        neg == t # <<>> /\ Head(t) = "-"
        body == IF neg THEN Tail(t) ELSE t
    IN  IF body = <<>> \/ Head(body) \notin Digits
        THEN NaN
        ELSE Num(IF neg THEN 0 - DigitsValue(body, 0) ELSE DigitsValue(body, 0))

\* scraper.js 263: what the parsed count is taken for
DiscoveryOf(parsed) ==
    IF parsed.nan THEN "nan" ELSE IF parsed.n <= 0 THEN "nonpositive" ELSE "ok"

\* scraper.js 262-268: the count used for the run
ResolveCountMut(parsed) ==
    IF parsed.nan THEN 1 ELSE parsed.n

ResolveCount(parsed) ==
    IF parsed.nan \/ parsed.n <= 0 THEN 1 ELSE parsed.n

(***************************************************************************)
(* The answer selection of one question, scraper.js 107-158.               *)
(***************************************************************************)
IsChoiceType(qt) ==
    qt \in {"multiple-choice-single", "multiple-choice", "multiple-choice-multiple"}

\* 108-110: the condition of the first-option fallback
FallbackApplies(a) ==
    /\ a.correctAnswer = JsNull
    /\ IsChoiceType(a.questionType)
    /\ IsArray(a.options) /\ Len(a.options.v) > 0

\* 112-119: the answer the fallback writes into the analysis
FallbackAnswerMut(a) ==
    IF a.questionType = "multiple-choice-multiple"
    THEN JsArray(<<a.options.v[Len(a.options.v)]>>)
    ELSE JsString(a.options.v[Len(a.options.v)])

FallbackAnswer(a) ==
    IF a.questionType = "multiple-choice-multiple"
    THEN JsArray(<<a.options.v[1]>>)
    ELSE JsString(a.options.v[1])

ApplyFallback(a) ==
    IF FallbackApplies(a)
    THEN [a EXCEPT !.correctAnswer = FallbackAnswer(a)]
    ELSE a

\* 124-158: the labels whose click is attempted, in order
SelectionTargetsAnyTypeMut(a) ==
    IF Truthy(a.correctAnswer)
    THEN IF a.questionType = "multiple-choice-multiple" /\ IsArray(a.correctAnswer)
         THEN a.correctAnswer.v
         ELSE IF IsString(a.correctAnswer)
              THEN <<a.correctAnswer.v[1]>>
              ELSE <<>>
    ELSE <<>>

SelectionTargetsArrayAnyChoiceMut(a) ==
    IF IsChoiceType(a.questionType) /\ Truthy(a.correctAnswer)
    THEN IF IsArray(a.correctAnswer)
         THEN a.correctAnswer.v
         ELSE IF IsString(a.correctAnswer)
              THEN <<a.correctAnswer.v[1]>>
              ELSE <<>>
    ELSE <<>>

SelectionTargets(a) ==
    IF IsChoiceType(a.questionType) /\ Truthy(a.correctAnswer)
    THEN IF a.questionType = "multiple-choice-multiple" /\ IsArray(a.correctAnswer)
         THEN a.correctAnswer.v
         ELSE IF IsString(a.correctAnswer)
              THEN <<a.correctAnswer.v[1]>>
              ELSE <<>>
    ELSE <<>>

(***************************************************************************)
(* The control flow after one question, scraper.js 160-216.                *)
(***************************************************************************)
\* 163: the question is followed by another one, so "Next" is clicked
ExpectsNextMut(questionIndex, max) == questionIndex <= max

ExpectsNext(questionIndex, max) == questionIndex < max

\* 203-207: the outcome appended for a question; its llmAnalysis field, which
\* the run never reads again, is left out
OutcomeMut(questionIndex, at) == [questionIndex |-> questionIndex - 1, actionTaken |-> at]

Outcome(questionIndex, at) == [questionIndex |-> questionIndex, actionTaken |-> at]

\* 42, 210-216: after the outcome of iteration i is pushed, the loop goes on
LoopContinuesMut(at, iter, max) == iter + 1 <= max

LoopContinues(at, iter, max) == at # "quiz_submitted" /\ iter + 1 < max

\* the catch block that handles a failure of operation op of a question: the
\* inner try/catch of 130-137 and 143-149, of 165-187, of 190-200, and for
\* every other operation the catch of handleDiagnostic (221)
CatchOfNoShotMut(op) ==
    IF op = "clickOption" THEN "q_optionErr"
    ELSE IF op \in {"clickNext", "waitIdleAfterNext", "settle", "screenshotAfterNext",
                    "writeAfterNext"} THEN "q_nextErr"
    ELSE "hd_catch"

CatchOfRetryMut(op) ==
    IF op = "clickOption" THEN "q_optionErr"
    ELSE IF op = "clickNext" THEN "q_next"
    ELSE IF op \in {"waitIdleAfterNext", "settle", "screenshotAfterNext",
                    "writeAfterNext"} THEN "q_nextErr"
    ELSE IF op = "clickSubmit" THEN "q_submitErr"
    ELSE "hd_catch"

CatchOf(op) ==
    IF op = "clickOption" THEN "q_optionErr"
    ELSE IF op \in {"clickNext", "waitIdleAfterNext", "settle", "screenshotAfterNext",
                    "writeAfterNext"} THEN "q_nextErr"
    ELSE IF op = "clickSubmit" THEN "q_submitErr"
    ELSE "hd_catch"

\* login.js 81: the catch of loginToCanvas closes the browser it connected
CatchClosesMut(br) == FALSE

CatchCloses(br) == br

\* scraper.js 301: loginResult?.browser
FinallyCloses(lr, br) == lr /\ br

(***************************************************************************)
(* State.                                                                  *)
(***************************************************************************)
VARIABLES
    pc,                  \* the await the run is suspended at
    session,             \* login.js 31: the Browserbase session exists
    browser,             \* login.js 32: the browser is connected
    loginResult,         \* scraper.js 232: loginToCanvas has returned its result
    closeCount,          \* number of calls of browser.close()
    actualMaxQuestions,  \* scraper.js 258: the question count, 0 while unset
    discovery,           \* history: how the reading of the count ended
    i,                   \* scraper.js 42: the loop variable
    diagnosticData,      \* scraper.js 31: the outcome log
    questionLlmAnalysis, \* scraper.js 104: the analysis of the current question
    clickIdx,            \* number of answers of the current question handled so far
    actionTaken,         \* scraper.js 161
    err,                 \* the error being thrown, "none" if none
    hdResult,            \* how handleDiagnostic ended and what it returned
    runResult,           \* how runCanvasScraper ended and what it resolved to
    parsedAnalysis,      \* history: the analysis as JSON.parse returned it
    qtrace,              \* history: the operations of question traceQ, in order
    traceQ,              \* history: the question qtrace is about
    advanceAttempted,    \* history: questions whose "Next" click was attempted
    submitAttempted      \* history: questions whose "Submit Quiz" click was attempted

vars ==
    <<pc, session, browser, loginResult, closeCount, actualMaxQuestions, discovery, i,
      diagnosticData, questionLlmAnalysis, clickIdx, actionTaken, err, hdResult,
      runResult, parsedAnalysis, qtrace, traceQ, advanceAttempted, submitAttempted>>

loginVars == <<session, browser, loginResult>>
countVars == <<actualMaxQuestions, discovery>>
loopVars == <<i, diagnosticData, questionLlmAnalysis, clickIdx, actionTaken>>
histVars == <<parsedAnalysis, qtrace, traceQ, advanceAttempted, submitAttempted>>
resultVars == <<hdResult, runResult>>

Ev(op, arg, ok) == [op |-> op, arg |-> arg, ok |-> ok]

Pending == [kind |-> "pending", log |-> <<>>]
Threw == [kind |-> "threw", log |-> <<>>]
Returned(log) == [kind |-> "returned", log |-> log]
\* a function without a return statement resolves to undefined
ResolvedUndefined == [kind |-> "undefined", log |-> <<>>]

Init ==
    /\ pc = "rs_mkdir"
    /\ session = FALSE
    /\ browser = FALSE
    /\ loginResult = FALSE
    /\ closeCount = 0
    /\ actualMaxQuestions = 0
    /\ discovery = "unread"
    /\ i = 0
    /\ diagnosticData = <<>>
    /\ questionLlmAnalysis = NoAnalysis
    /\ clickIdx = 0
    /\ actionTaken = "unknown"
    /\ err = "none"
    /\ hdResult = Pending
    /\ runResult = Pending
    /\ parsedAnalysis = NoAnalysis
    /\ qtrace = <<>>
    /\ traceQ = 0
    /\ advanceAttempted = {}
    /\ submitAttempted = {}

(***************************************************************************)
(* runCanvasScraper up to the question loop, and loginToCanvas.            *)
(***************************************************************************)
\* scraper.js 240: fs.promises.mkdir
RsMkdir ==
    /\ pc = "rs_mkdir"
    /\ \E ok \in BOOLEAN :
        IF ok THEN pc' = "lg_session" /\ err' = err
              ELSE pc' = "rs_catch" /\ err' = "mkdir"
    /\ UNCHANGED <<loginVars, closeCount, countVars, loopVars, histVars, resultVars>>

\* login.js 35: bb.sessions.create
SessionsCreate ==
    /\ pc = "lg_session"
    /\ \E ok \in BOOLEAN :
        IF ok THEN pc' = "lg_connect" /\ session' = TRUE /\ err' = err
              ELSE pc' = "lg_catch" /\ session' = session /\ err' = "session"
    /\ UNCHANGED <<browser, loginResult, closeCount, countVars, loopVars,
                   histVars, resultVars>>

\* login.js 42: chromium.connectOverCDP
ConnectOverCDP ==
    /\ pc = "lg_connect"
    /\ \E ok \in BOOLEAN :
        IF ok THEN pc' = "lg_page" /\ browser' = TRUE /\ err' = err
              ELSE pc' = "lg_catch" /\ browser' = browser /\ err' = "connect"
    /\ UNCHANGED <<session, loginResult, closeCount, countVars, loopVars,
                   histVars, resultVars>>

\* login.js 43-73: goto, waitForSelector, fill, fill, click, waitForURL; the
\* first of them that throws ends the sequence
LoginPageSteps ==
    /\ pc = "lg_page"
    /\ \E ok \in BOOLEAN :
        IF ok THEN pc' = "rs_waitStart" /\ loginResult' = TRUE /\ err' = err
              ELSE pc' = "lg_catch" /\ loginResult' = loginResult /\ err' = "login_page"
    /\ UNCHANGED <<session, browser, closeCount, countVars, loopVars,
                   histVars, resultVars>>

\* login.js 75-87: the catch of loginToCanvas; an error of close() is swallowed
LoginCatch ==
    /\ pc = "lg_catch"
    /\ closeCount' = IF CatchCloses(browser) THEN closeCount + 1 ELSE closeCount
    /\ err' = "login"
    /\ pc' = "rs_catch"
    /\ UNCHANGED <<loginVars, countVars, loopVars, histVars, resultVars>>

\* scraper.js 254: page.waitForSelector(START_QUIZ_SELECTOR)
WaitForStartSelectorSkipCountMut ==
    /\ pc = "rs_waitStart"
    /\ \E ok \in BOOLEAN :
        IF ok THEN pc' = "rs_start" /\ err' = err
              ELSE pc' = "rs_catch" /\ err' = "wait_start"
    /\ UNCHANGED <<loginVars, closeCount, countVars, loopVars, histVars, resultVars>>

WaitForStartSelector ==
    /\ pc = "rs_waitStart"
    /\ \E ok \in BOOLEAN :
        IF ok THEN pc' = "rs_count" /\ err' = err
              ELSE pc' = "rs_catch" /\ err' = "wait_start"
    /\ UNCHANGED <<loginVars, closeCount, countVars, loopVars, histVars, resultVars>>

\* scraper.js 259-274: read the count element and parse it; textContent may
\* throw, and may return null, which parseInt reads as NaN
ScrapeCount ==
    /\ pc = "rs_count"
    /\ \/ actualMaxQuestions' = 1 /\ discovery' = "threw"
       \/ \E text \in CountTexts :
            /\ ResolveCount(ParseInt(text)) <= MaxTotal
            /\ actualMaxQuestions' = ResolveCount(ParseInt(text))
            /\ discovery' = DiscoveryOf(ParseInt(text))
    /\ pc' = "rs_start"
    /\ UNCHANGED <<loginVars, closeCount, loopVars, err, histVars, resultVars>>

\* scraper.js 278: click "Take the Quiz"
ClickStart ==
    /\ pc = "rs_start"
    /\ \E ok \in BOOLEAN :
        IF ok THEN pc' = "rs_startIdle" /\ err' = err
              ELSE pc' = "rs_catch" /\ err' = "start_click"
    /\ UNCHANGED <<loginVars, closeCount, countVars, loopVars, histVars, resultVars>>

\* scraper.js 283: waitForLoadState after the start click, then the call of
\* handleDiagnostic (287) up to its first await
WaitAfterStart ==
    /\ pc = "rs_startIdle"
    /\ \E ok \in BOOLEAN :
        IF ok THEN pc' = "hd_mkdir" /\ err' = err
              ELSE pc' = "rs_catch" /\ err' = "start_idle"
    /\ UNCHANGED <<loginVars, closeCount, countVars, loopVars, histVars, resultVars>>

(***************************************************************************)
(* handleDiagnostic.                                                       *)
(***************************************************************************)
Rejected == [kind |-> "rejected", log |-> <<>>]

\* where the run goes once idx answers of analysis a have been handled:
\* the next answer of the loop of 127, or the button of 163-201
SelectionNextFirstOnlyMut(idx, a, questionIndex, max) ==
    IF idx < Len(SelectionTargets(a)) /\ idx = 0
    THEN "q_option"
    ELSE IF ExpectsNext(questionIndex, max) THEN "q_next" ELSE "q_submit"

SelectionNext(idx, a, questionIndex, max) ==
    IF idx < Len(SelectionTargets(a))
    THEN "q_option"
    ELSE IF ExpectsNext(questionIndex, max) THEN "q_next" ELSE "q_submit"

\* an error thrown inside the try of handleDiagnostic
HdThrowContinueMut(e) ==
    /\ pc' = (IF ExpectsNext(i + 1, actualMaxQuestions) THEN "q_next" ELSE "q_submit")
    /\ err' = e

HdThrow(e) ==
    /\ pc' = "hd_catch"
    /\ err' = e

\* 203-219: push the outcome of the current question, then either start the
\* next iteration or return the log to runCanvasScraper, which goes on to its
\* finally block (289-292 await nothing)
PushOutcome(at) ==
    /\ diagnosticData' = Append(diagnosticData, Outcome(i + 1, at))
    /\ IF LoopContinues(at, i, actualMaxQuestions)
       THEN /\ i' = i + 1
            /\ pc' = "q_idle"
            /\ questionLlmAnalysis' = NoAnalysis
            /\ clickIdx' = 0
            /\ actionTaken' = "unknown"
            /\ hdResult' = hdResult
       ELSE /\ i' = i
            /\ pc' = "rs_finally"
            /\ questionLlmAnalysis' = questionLlmAnalysis
            /\ clickIdx' = clickIdx
            /\ actionTaken' = at
            /\ hdResult' = Returned(diagnosticData')

\* 39-44: mkdir, then the first test of the loop condition
HdMkdir ==
    /\ pc = "hd_mkdir"
    /\ \E ok \in BOOLEAN :
        IF ok
        THEN /\ err' = err
             /\ IF 0 < actualMaxQuestions
                THEN pc' = "q_idle" /\ hdResult' = hdResult
                ELSE pc' = "rs_finally" /\ hdResult' = Returned(diagnosticData)
        ELSE HdThrow("mkdir") /\ hdResult' = hdResult
    /\ UNCHANGED <<loginVars, closeCount, countVars, loopVars, histVars, runResult>>

\* 47: wait for the question page to be idle
WaitQuestionReady ==
    /\ pc = "q_idle"
    /\ traceQ' = i + 1
    /\ parsedAnalysis' = NoAnalysis
    /\ \E ok \in BOOLEAN :
        /\ qtrace' = <<Ev("waitIdle", "", ok)>>
        /\ IF ok THEN pc' = "q_shot" /\ err' = err ELSE HdThrow("question_idle")
    /\ UNCHANGED <<loginVars, closeCount, countVars, loopVars,
                   advanceAttempted, submitAttempted, resultVars>>

\* 51: page.screenshot of the question
QuestionScreenshot ==
    /\ pc = "q_shot"
    /\ \E ok \in BOOLEAN :
        /\ qtrace' = Append(qtrace, Ev("screenshot", "", ok))
        /\ IF ok THEN pc' = "q_write" /\ err' = err ELSE HdThrow("question_screenshot")
    /\ UNCHANGED <<loginVars, closeCount, countVars, loopVars, parsedAnalysis,
                   traceQ, advanceAttempted, submitAttempted, resultVars>>

\* 54: write the question screenshot
WriteQuestionScreenshot ==
    /\ pc = "q_write"
    /\ \E ok \in BOOLEAN :
        /\ qtrace' = Append(qtrace, Ev("writeFile", "", ok))
        /\ IF ok THEN pc' = "q_llm" /\ err' = err ELSE HdThrow("question_write")
    /\ UNCHANGED <<loginVars, closeCount, countVars, loopVars, parsedAnalysis,
                   traceQ, advanceAttempted, submitAttempted, resultVars>>

\* 86-124: the call of the vision model, the check of its content, JSON.parse,
\* the fallback, and the choice of the first thing to click
AnalyzeQuestion ==
    /\ pc = "q_llm"
    /\ \E r \in Responses :
        IF AnalysisError(r) # "none"
        THEN /\ HdThrow(AnalysisError(r))
             /\ qtrace' = Append(qtrace, Ev("analyze", r.kind, FALSE))
             /\ UNCHANGED <<questionLlmAnalysis, parsedAnalysis>>
        ELSE /\ parsedAnalysis' = r.a
             /\ questionLlmAnalysis' = ApplyFallback(r.a)
             /\ qtrace' = Append(qtrace, Ev("analyze", r.kind, TRUE))
             /\ pc' = SelectionNext(0, ApplyFallback(r.a), i + 1, actualMaxQuestions)
             /\ err' = err
    /\ UNCHANGED <<loginVars, closeCount, countVars, i, diagnosticData, clickIdx,
                   actionTaken, traceQ, advanceAttempted, submitAttempted, resultVars>>

\* 131, 144: click the label of the next answer
ClickOption ==
    /\ pc = "q_option"
    /\ LET target == SelectionTargets(questionLlmAnalysis)[clickIdx + 1]
       IN  \E ok \in BOOLEAN :
            /\ qtrace' = Append(qtrace, Ev("clickOption", target, ok))
            /\ IF ok
               THEN /\ clickIdx' = clickIdx + 1
                    /\ pc' = SelectionNext(clickIdx + 1, questionLlmAnalysis, i + 1,
                                           actualMaxQuestions)
               ELSE /\ clickIdx' = clickIdx
                    /\ pc' = CatchOf("clickOption")
    /\ UNCHANGED <<loginVars, closeCount, countVars, i, diagnosticData,
                   questionLlmAnalysis, actionTaken, err, parsedAnalysis, traceQ,
                   advanceAttempted, submitAttempted, resultVars>>

\* 133-137, 146-149: the catch of a failed option click takes a screenshot;
\* the screenshot is awaited inside the catch, so its error leaves the loop
OptionErrorScreenshot ==
    /\ pc = "q_optionErr"
    /\ LET target == SelectionTargets(questionLlmAnalysis)[clickIdx + 1]
       IN  \E ok \in BOOLEAN :
            /\ qtrace' = Append(qtrace, Ev("errorShot", target, ok))
            /\ IF ok
               THEN /\ clickIdx' = clickIdx + 1
                    /\ pc' = SelectionNext(clickIdx + 1, questionLlmAnalysis, i + 1,
                                           actualMaxQuestions)
                    /\ err' = err
               ELSE /\ clickIdx' = clickIdx
                    /\ HdThrow("option_error_screenshot")
    /\ UNCHANGED <<loginVars, closeCount, countVars, i, diagnosticData,
                   questionLlmAnalysis, actionTaken, parsedAnalysis, traceQ,
                   advanceAttempted, submitAttempted, resultVars>>

\* 167-169: click "Next"
ClickNextNoWaitMut ==
    /\ pc = "q_next"
    /\ advanceAttempted' = advanceAttempted \cup {i + 1}
    /\ \E ok \in BOOLEAN :
        /\ qtrace' = Append(qtrace, Ev("clickNext", "", ok))
        /\ IF ok
           THEN pc' = "q_nextShot" /\ actionTaken' = "next_question_clicked"
           ELSE pc' = CatchOf("clickNext") /\ actionTaken' = actionTaken
    /\ UNCHANGED <<loginVars, closeCount, countVars, i, diagnosticData,
                   questionLlmAnalysis, clickIdx, err, parsedAnalysis, traceQ,
                   submitAttempted, resultVars>>

ClickNext ==
    /\ pc = "q_next"
    /\ advanceAttempted' = advanceAttempted \cup {i + 1}
    /\ \E ok \in BOOLEAN :
        /\ qtrace' = Append(qtrace, Ev("clickNext", "", ok))
        /\ IF ok
           THEN pc' = "q_nextIdle" /\ actionTaken' = "next_question_clicked"
           ELSE pc' = CatchOf("clickNext") /\ actionTaken' = actionTaken
    /\ UNCHANGED <<loginVars, closeCount, countVars, i, diagnosticData,
                   questionLlmAnalysis, clickIdx, err, parsedAnalysis, traceQ,
                   submitAttempted, resultVars>>

\* 173: waitForLoadState after the Next click, inside the try of 165
WaitAfterNext ==
    /\ pc = "q_nextIdle"
    /\ \E ok \in BOOLEAN :
        /\ qtrace' = Append(qtrace, Ev("waitIdleAfterNext", "", ok))
        /\ pc' = IF ok THEN "q_nextSettle" ELSE CatchOf("waitIdleAfterNext")
    /\ UNCHANGED <<loginVars, closeCount, countVars, loopVars, err, parsedAnalysis,
                   traceQ, advanceAttempted, submitAttempted, resultVars>>

\* 174: waitForTimeout(2000)
SettleAfterNext ==
    /\ pc = "q_nextSettle"
    /\ \E ok \in BOOLEAN :
        /\ qtrace' = Append(qtrace, Ev("settle", "", ok))
        /\ pc' = IF ok THEN "q_nextShot" ELSE CatchOf("settle")
    /\ UNCHANGED <<loginVars, closeCount, countVars, loopVars, err, parsedAnalysis,
                   traceQ, advanceAttempted, submitAttempted, resultVars>>

\* 177: the screenshot after the Next click
ScreenshotAfterNext ==
    /\ pc = "q_nextShot"
    /\ \E ok \in BOOLEAN :
        /\ qtrace' = Append(qtrace, Ev("screenshotAfterNext", "", ok))
        /\ pc' = IF ok THEN "q_nextWrite" ELSE CatchOf("screenshotAfterNext")
    /\ UNCHANGED <<loginVars, closeCount, countVars, loopVars, err, parsedAnalysis,
                   traceQ, advanceAttempted, submitAttempted, resultVars>>

\* 179-216: write that screenshot; then the outcome is pushed and the loop
\* goes to its next iteration
WriteAfterNext ==
    /\ pc = "q_nextWrite"
    /\ \E ok \in BOOLEAN :
        /\ qtrace' = Append(qtrace, Ev("writeAfterNext", "", ok))
        /\ IF ok
           THEN PushOutcome(actionTaken)
           ELSE pc' = CatchOf("writeAfterNext") /\ UNCHANGED <<loopVars, hdResult>>
    /\ UNCHANGED <<loginVars, closeCount, countVars, err, parsedAnalysis, traceQ,
                   advanceAttempted, submitAttempted, runResult>>

\* 182-187: the catch of the try around the Next click and what follows it
NextErrorScreenshot ==
    /\ pc = "q_nextErr"
    /\ \E ok \in BOOLEAN :
        /\ qtrace' = Append(qtrace, Ev("errorShot", "", ok))
        /\ IF ok
           THEN actionTaken' = "error_clicking_next" /\ HdThrow("next_click_failed")
           ELSE actionTaken' = actionTaken /\ HdThrow("next_error_screenshot")
    /\ UNCHANGED <<loginVars, closeCount, countVars, i, diagnosticData,
                   questionLlmAnalysis, clickIdx, parsedAnalysis, traceQ,
                   advanceAttempted, submitAttempted, resultVars>>

\* 192-213: click "Submit Quiz"; on success the outcome is pushed and
\* handleDiagnostic returns
ClickSubmit ==
    /\ pc = "q_submit"
    /\ submitAttempted' = submitAttempted \cup {i + 1}
    /\ \E ok \in BOOLEAN :
        /\ qtrace' = Append(qtrace, Ev("clickSubmit", "", ok))
        /\ IF ok
           THEN PushOutcome("quiz_submitted")
           ELSE pc' = CatchOf("clickSubmit") /\ UNCHANGED <<loopVars, hdResult>>
    /\ UNCHANGED <<loginVars, closeCount, countVars, err, parsedAnalysis, traceQ,
                   advanceAttempted, runResult>>

\* 195-200: the catch of the failed Submit click
SubmitErrorScreenshot ==
    /\ pc = "q_submitErr"
    /\ \E ok \in BOOLEAN :
        /\ qtrace' = Append(qtrace, Ev("errorShot", "", ok))
        /\ IF ok
           THEN actionTaken' = "error_clicking_submit" /\ HdThrow("submit_click_failed")
           ELSE actionTaken' = actionTaken /\ HdThrow("submit_error_screenshot")
    /\ UNCHANGED <<loginVars, closeCount, countVars, i, diagnosticData,
                   questionLlmAnalysis, clickIdx, parsedAnalysis, traceQ,
                   advanceAttempted, submitAttempted, resultVars>>

\* 221-227: the catch of handleDiagnostic logs page.url() and rethrows; an
\* error of page.url() replaces the one being handled
HandleDiagnosticCatch ==
    /\ pc = "hd_catch"
    /\ \E urlOk \in BOOLEAN : err' = IF urlOk THEN err ELSE "page_url"
    /\ hdResult' = Threw
    /\ pc' = "rs_catch"
    /\ UNCHANGED <<loginVars, closeCount, countVars, loopVars, histVars, runResult>>

(***************************************************************************)
(* The end of runCanvasScraper.                                            *)
(***************************************************************************)
\* scraper.js 293-298: the catch logs the error and does not rethrow
RunCatch ==
    /\ pc = "rs_catch"
    /\ pc' = "rs_finally"
    /\ UNCHANGED <<loginVars, closeCount, countVars, loopVars, err, histVars,
                   resultVars>>

\* scraper.js 299-312: the finally block; the close is awaited outside any try,
\* so its error rejects the promise of runCanvasScraper
Cleanup ==
    /\ pc = "rs_finally"
    /\ pc' = "done"
    /\ IF FinallyCloses(loginResult, browser)
       THEN /\ closeCount' = closeCount + 1
            /\ \E ok \in BOOLEAN :
                IF ok THEN runResult' = ResolvedUndefined /\ err' = err
                      ELSE runResult' = Rejected /\ err' = "close"
       ELSE /\ closeCount' = closeCount
            /\ runResult' = ResolvedUndefined
            /\ err' = err
    /\ UNCHANGED <<loginVars, countVars, loopVars, histVars, hdResult>>

Next ==
    \/ RsMkdir
    \/ SessionsCreate
    \/ ConnectOverCDP
    \/ LoginPageSteps
    \/ LoginCatch
    \/ WaitForStartSelector
    \/ ScrapeCount
    \/ ClickStart
    \/ WaitAfterStart
    \/ HdMkdir
    \/ WaitQuestionReady
    \/ QuestionScreenshot
    \/ WriteQuestionScreenshot
    \/ AnalyzeQuestion
    \/ ClickOption
    \/ OptionErrorScreenshot
    \/ ClickNext
    \/ WaitAfterNext
    \/ SettleAfterNext
    \/ ScreenshotAfterNext
    \/ WriteAfterNext
    \/ NextErrorScreenshot
    \/ ClickSubmit
    \/ SubmitErrorScreenshot
    \/ HandleDiagnosticCatch
    \/ RunCatch
    \/ Cleanup

Spec == Init /\ [][Next]_vars

\* the steps whose awaits the code bounds itself: a page call that is given a
\* timeout option (47, 131, 144, 167, 173, 192, 254, 261, 278, 283), the
\* timer of 174, a call of fs, or no await at all (221-227, 293-298).  The
\* other steps await a call the code sets no bound on: sessions.create,
\* connectOverCDP, goto, fill, click (login.js 35-63), page.screenshot (51,
\* 135, 148, 177, 184, 197), chat.completions.create (86) and browser.close
\* (303, login.js 82)
TimedStep ==
    \/ RsMkdir
    \/ WaitForStartSelector
    \/ ScrapeCount
    \/ ClickStart
    \/ WaitAfterStart
    \/ HdMkdir
    \/ WaitQuestionReady
    \/ WriteQuestionScreenshot
    \/ ClickOption
    \/ ClickNext
    \/ WaitAfterNext
    \/ SettleAfterNext
    \/ WriteAfterNext
    \/ ClickSubmit
    \/ HandleDiagnosticCatch
    \/ RunCatch

\* a step the code bounds is taken in the end; one it does not bound may
\* stay pending for ever
LiveSpec == Init /\ [][Next]_vars /\ WF_vars(TimedStep)

TypeOK ==
    /\ closeCount \in 0..2
    /\ actualMaxQuestions \in 0..MaxTotal
    /\ i \in 0..MaxTotal
    /\ clickIdx \in 0..MaxAnswers
    /\ questionLlmAnalysis \in Analyses \cup {NoAnalysis}
    /\ hdResult.kind \in {"pending", "threw", "returned"}
    /\ runResult.kind \in {"pending", "undefined", "rejected"}

(***************************************************************************)
(* Properties.                                                             *)
(***************************************************************************)
total == actualMaxQuestions

Ended == pc = "done"

\* an outcome with actionTaken = submitted is in the log
Submitted ==
    \E k \in DOMAIN diagnosticData : diagnosticData[k].actionTaken = "quiz_submitted"

\* the labels of the option clicks attempted for question traceQ, in order
RECURSIVE ClickedLabels(_)
ClickedLabels(tr) ==
    IF tr = <<>>
    THEN <<>>
    ELSE IF Head(tr).op = "clickOption"
         THEN <<Head(tr).arg>> \o ClickedLabels(Tail(tr))
         ELSE ClickedLabels(Tail(tr))

\* the analysis of question traceQ has been parsed and no option click of it
\* is still to come
SelectionOver ==
    /\ parsedAnalysis # NoAnalysis
    /\ pc \notin {"q_option", "q_optionErr"}

\* an option click of question traceQ has failed
OptionClickFailed ==
    \E k \in DOMAIN qtrace : qtrace[k].op = "clickOption" /\ ~qtrace[k].ok

\* C1: once an outcome with actionTaken = submitted is in the log, the run
\* performs no further question step: the trace of question operations never
\* changes again and the run is in, or past, its cleanup.
C1_NoStepAfterSubmit ==
    [][Submitted =>
        /\ qtrace' = qtrace
        /\ advanceAttempted' = advanceAttempted
        /\ submitAttempted' = submitAttempted
        /\ pc' \in {"rs_finally", "done"}]_vars

C1_Witness == Submitted /\ Ended /\ Len(diagnosticData) = 3

\* C2: the Next click is attempted only on questions i < total, the Submit
\* click only on question i = total, never both on one question; every
\* question with a recorded outcome attempted the one its index asks for.
C2_AdvanceOrSubmitByIndex ==
    /\ \A q \in advanceAttempted : q \in 1..total /\ q < total
    /\ \A q \in submitAttempted : q = total
    /\ advanceAttempted \cap submitAttempted = {}
    /\ pc \in {"q_next", "q_nextIdle", "q_nextSettle", "q_nextShot", "q_nextWrite", "q_nextErr"}
        => i + 1 < total
    /\ pc \in {"q_submit", "q_submitErr"} => i + 1 = total
    /\ \A k \in DOMAIN diagnosticData :
        /\ k < total => k \in advanceAttempted
        /\ k = total => k \in submitAttempted

C2_Witness ==
    total = 3 /\ advanceAttempted = {1, 2} /\ submitAttempted = {3}

\* C3: the outcome log never has more than total entries, its k-th entry has
\* index k, and every step leaves the log unchanged or appends one entry.
C3_LogOrderedAppendOnly ==
    /\ [](/\ Len(diagnosticData) <= total
          /\ \A k \in DOMAIN diagnosticData : diagnosticData[k].questionIndex = k)
    /\ [][\/ diagnosticData' = diagnosticData
          \/ \E e \in [questionIndex : 1..total,
                       actionTaken : {"next_question_clicked", "quiz_submitted"}] :
                diagnosticData' = Append(diagnosticData, e)]_vars

C3_Witness == total = 3 /\ Len(diagnosticData) = 3

\* C4 as claimed: whichever step fails, browser.close() has been called
\* exactly once when the run ends.
C4_CloseExactlyOnce == Ended => closeCount = 1

\* C4 as amended: close() is never called twice; when the run ends it has been
\* called exactly once if the browser was connected, and not at all if the
\* run failed before the browser was connected.
C4_CloseOnceIfConnected ==
    /\ closeCount <= 1
    /\ ~browser => closeCount = 0
    /\ Ended => closeCount = (IF browser THEN 1 ELSE 0)

C4_Witness ==
    Ended /\ browser /\ ~loginResult /\ closeCount = 1

\* C5: when a fatal failure aborts the run at question k, the outcomes recorded
\* for questions 1..k-1 are returned: handleDiagnostic or runCanvasScraper
\* hands the log to its caller (stated for k >= 2, where the log is not empty,
\* and for runs whose cleanup succeeds).
C5_PartialLogReturned ==
    (/\ Ended /\ runResult.kind # "rejected"
     /\ hdResult.kind = "threw" /\ diagnosticData # <<>>) =>
        \/ hdResult = Returned(diagnosticData)
        \/ runResult = Returned(diagnosticData)

\* C6: no error escapes runCanvasScraper: its promise is never rejected.
C6_NoErrorEscapes == Ended => runResult.kind # "rejected"

\* the case of the first-option fallback: a choice question with options
ChoiceWithOptions(a) ==
    /\ IsChoiceType(a.questionType)
    /\ IsArray(a.options) /\ Len(a.options.v) > 0

C8_EmptyAnswerClicksFirstOption ==
    (/\ SelectionOver
     /\ ChoiceWithOptions(parsedAnalysis)
     /\ parsedAnalysis.correctAnswer \in {JsString(""), JsArray(<<>>), JsUndefined}) =>
        ClickedLabels(qtrace) = <<parsedAnalysis.options.v[1]>>

\* C9: for a multi-choice question whose correctAnswer is a non-empty array of
\* labels, a click is attempted for every label, in order, whatever happens
\* to the other clicks and while their failures are handled.
C9_EveryLabelClicked ==
    (/\ SelectionOver
     /\ parsedAnalysis.questionType = "multiple-choice-multiple"
     /\ IsArray(parsedAnalysis.correctAnswer)
     /\ parsedAnalysis.correctAnswer.v # <<>>) =>
        ClickedLabels(qtrace) = parsedAnalysis.correctAnswer.v

\* C10: a failed option click never aborts the question: once the selection of
\* a question with a failed option click is over, its Next or Submit click
\* is attempted before the run leaves the question.
C10_FailedOptionClickStillNavigates ==
    (/\ OptionClickFailed
     /\ pc \in {"hd_catch", "rs_catch", "rs_finally", "done"}) =>
        traceQ \in advanceAttempted \cup submitAttempted

\* the run is at, or past, the Next or Submit click of question traceQ
AtOrPastButton ==
    \/ pc \in {"q_next", "q_submit"}
    \/ traceQ \in advanceAttempted \cup submitAttempted

ChoiceTypeNames ==
    {"multiple-choice-single", "multiple-choice", "multiple-choice-multiple"}

\* the options of analysis a are absent or empty
NoOptions(a) == ~(a.options.t = "array" /\ a.options.v # <<>>)

\* C11: for a free-response question, whatever its options and its answer, no
\* option click is attempted, no error is raised for it, and the run goes on
\* to the Next or Submit click of the question.
C11_FreeResponseNoClick ==
    parsedAnalysis.questionType = "free-response" =>
        /\ ClickedLabels(qtrace) = <<>>
        /\ AtOrPastButton
        /\ pc \in {"q_next", "q_submit"} => err = "none"

C11_Witness ==
    /\ parsedAnalysis.questionType = "free-response"
    /\ parsedAnalysis.correctAnswer = JsString("A")
    /\ parsedAnalysis.options = JsArray(<<"A", "B">>)
    /\ traceQ \in submitAttempted

\* C12 as claimed: for a question whose type is unknown/other, or whose type
\* is a choice type with absent or empty options, no option click is
\* attempted, even when an answer is present.
C12_NoOptionsNoClick ==
    (\/ parsedAnalysis.questionType \in {"other", "undefined"}
     \/ parsedAnalysis.questionType \in ChoiceTypeNames /\ NoOptions(parsedAnalysis)) =>
        ClickedLabels(qtrace) = <<>>

\* C12 as amended: no option click is attempted, and the run goes on to the
\* Next or Submit click, for a question whose type is unknown/other whatever
\* its answer, and for a choice question with absent or empty options whose
\* answer is null, missing, '' or [].
C12_UnknownTypeOrNoAnswerNoClick ==
    (\/ parsedAnalysis.questionType \in {"other", "undefined"}
     \/ /\ parsedAnalysis.questionType \in ChoiceTypeNames
        /\ NoOptions(parsedAnalysis)
        /\ parsedAnalysis.correctAnswer
            \in {JsNull, JsUndefined, JsString(""), JsArray(<<>>)}) =>
        /\ ClickedLabels(qtrace) = <<>>
        /\ AtOrPastButton
        /\ pc \in {"q_next", "q_submit"} => err = "none"

C12_Witness ==
    /\ parsedAnalysis.questionType = "other"
    /\ parsedAnalysis.correctAnswer = JsString("A")
    /\ traceQ \in advanceAttempted

Elements(sq) == {sq[k] : k \in DOMAIN sq}

\* C13 as claimed: every option click targets a label that is an entry of the
\* options of the question.
C13_ClicksWithinOptions ==
    \A l \in Elements(ClickedLabels(qtrace)) :
        /\ parsedAnalysis.options.t = "array"
        /\ l \in Elements(parsedAnalysis.options.v)

\* C13 as amended: every option click targets a label of the answer the
\* analysis gave (the string, or an entry of the array) or, when that answer
\* was null, the first entry of options; whether the label is an entry of
\* options is not checked.
C13_ClicksWithinAnswer ==
    \A l \in Elements(ClickedLabels(qtrace)) :
        IF parsedAnalysis.correctAnswer = JsNull
        THEN /\ parsedAnalysis.options.t = "array"
             /\ parsedAnalysis.options.v # <<>>
             /\ l = parsedAnalysis.options.v[1]
        ELSE l \in Elements(parsedAnalysis.correctAnswer.v)

C13_Witness ==
    /\ parsedAnalysis.questionType = "multiple-choice-single"
    /\ parsedAnalysis.options = JsArray(<<"A">>)
    /\ parsedAnalysis.correctAnswer = JsString("B")
    /\ ClickedLabels(qtrace) = <<"B">>

AbortPcs == {"hd_catch", "rs_catch", "rs_finally", "done"}

\* the analysis step of question traceQ was reached and got a response of kind k
AnalyzedWith(k) ==
    \E n \in DOMAIN qtrace : qtrace[n].op = "analyze" /\ qtrace[n].arg = k

\* no option click and no Next or Submit click was attempted for question
\* traceQ, and the run is in its error handling or cleanup
AbortedBeforeClicks ==
    /\ pc \in AbortPcs
    /\ ClickedLabels(qtrace) = <<>>
    /\ traceQ \notin advanceAttempted \cup submitAttempted

\* C14 as claimed: a response that is missing, empty, not parseable, or
\* parseable but without the required fields (such as {}) aborts the run at
\* that question with no option click and no Next or Submit click.
C14_BadAnalysisAborts ==
    (\/ \E k \in FailureKinds : AnalyzedWith(k)
     \/ AnalyzedWith("object") /\ parsedAnalysis.questionType = "undefined") =>
        AbortedBeforeClicks

\* C14 as amended: a rejected call, a missing or empty content and a content
\* that is not JSON abort the run at that question with no option click and no
\* Next or Submit click; a parsed object is never rejected, and one without
\* questionType (such as {}) gets no option click and goes on to its Next or
\* Submit click.
C14_UnparsedAnalysisAborts ==
    /\ (\E k \in FailureKinds : AnalyzedWith(k)) =>
        /\ AbortedBeforeClicks
        /\ parsedAnalysis = NoAnalysis
    /\ AnalyzedWith("object") =>
        /\ parsedAnalysis \in Analyses
        /\ parsedAnalysis.questionType = "undefined" =>
            /\ ClickedLabels(qtrace) = <<>>
            /\ AtOrPastButton

C14_Witness ==
    /\ AnalyzedWith("invalid_json")
    /\ traceQ = 2
    /\ Ended

\* C15: when the Next click of question i < total, or the Submit click of
\* question i = total, fails, an outcome with index i and the failed action
\* (error_clicking_next, error_clicking_submit) is appended to the log before
\* the loop stops.
C15_FailedButtonOutcomeLogged ==
    (/\ pc \in AbortPcs
     /\ actionTaken \in {"error_clicking_next", "error_clicking_submit"}
     /\ \E n \in DOMAIN qtrace :
            qtrace[n].op \in {"clickNext", "clickSubmit"} /\ ~qtrace[n].ok) =>
        \E k \in DOMAIN diagnosticData :
            /\ diagnosticData[k].questionIndex = traceQ
            /\ diagnosticData[k].actionTaken
                \in {"error_clicking_next", "error_clicking_submit"}

DiscoveryFailed == discovery \in {"threw", "nan", "nonpositive"}

\* C16: if the count cannot be read, or its text parses to NaN or to an
\* integer <= 0, total is exactly 1; the failure does not abort the run, the
\* start click comes next, and the run handles question 1 only, on which it
\* attempts Submit and never Next.
C16_DiscoveryFailureDefaultsToOne ==
    /\ [](DiscoveryFailed =>
            /\ total = 1
            /\ traceQ <= 1
            /\ Len(diagnosticData) <= 1
            /\ advanceAttempted = {}
            /\ submitAttempted \subseteq {1}
            /\ pc \notin {"q_next", "q_nextIdle", "q_nextSettle", "q_nextShot",
                          "q_nextWrite", "q_nextErr"})
    /\ [][pc = "rs_count" => pc' = "rs_start" /\ err' = "none"]_vars

C16_Witness ==
    /\ discovery = "nan"
    /\ Ended
    /\ submitAttempted = {1}
    /\ diagnosticData = <<Outcome(1, "quiz_submitted")>>

\* the failed operation at position n of qtrace is followed by a diagnostic
\* screenshot, or that screenshot is the next thing the run does
ShotFollows(n) ==
    IF n = Len(qtrace)
    THEN pc \in {"q_optionErr", "q_nextErr", "q_submitErr"}
    ELSE qtrace[n + 1].op = "errorShot"

FailedAt(n, ops) == qtrace[n].op \in ops /\ ~qtrace[n].ok

\* C17 as claimed: every failure (of the idle wait, of the question screenshot
\* or its write, of the analysis, of an option click, of the Next click, of
\* the Submit click) is followed by a diagnostic screenshot before the run
\* aborts or goes on.
C17_EveryFailureTakesScreenshot ==
    \A n \in DOMAIN qtrace :
        FailedAt(n, {"waitIdle", "screenshot", "writeFile", "analyze", "clickOption",
                     "clickNext", "clickSubmit"}) => ShotFollows(n)

\* C17 as amended: a failed option click, Next click or Submit click is
\* followed by a diagnostic screenshot before the run aborts or goes on; a
\* failed idle wait, question screenshot or analysis is followed by no
\* operation of the question at all: the run goes to the catch of
\* handleDiagnostic, which logs the error.
C17_ClickFailureTakesScreenshot ==
    \A n \in DOMAIN qtrace :
        /\ FailedAt(n, {"clickOption", "clickNext", "clickSubmit"}) => ShotFollows(n)
        /\ FailedAt(n, {"waitIdle", "screenshot", "writeFile", "analyze"}) =>
            n = Len(qtrace) /\ pc \in AbortPcs

C17_Witness ==
    /\ Len(qtrace) >= 2
    /\ FailedAt(Len(qtrace) - 1, {"clickSubmit"})
    /\ qtrace[Len(qtrace)].op = "errorShot"
    /\ pc = "hd_catch"

EarlySteps == {"waitIdle", "screenshot", "writeFile", "analyze"}

EarlyFailure == \E n \in DOMAIN qtrace : FailedAt(n, EarlySteps)

\* C18: a failure of the idle wait, of the question screenshot (capture or
\* write) or of the analysis at question k aborts the run at once: the failed
\* operation is the last one of the question, no option click and no Next or
\* Submit click is attempted for it, the log keeps its k - 1 entries, and
\* every later step only moves through error handling and cleanup.
C18_EarlyFailureAbortsRun ==
    /\ [](\A n \in DOMAIN qtrace :
            FailedAt(n, EarlySteps) =>
                /\ n = Len(qtrace)
                /\ AbortedBeforeClicks
                /\ Len(diagnosticData) = traceQ - 1)
    /\ [][EarlyFailure =>
            /\ pc' \in AbortPcs
            /\ UNCHANGED <<qtrace, traceQ, i, diagnosticData, advanceAttempted,
                           submitAttempted>>]_vars

C18_Witness ==
    /\ qtrace # <<>>
    /\ FailedAt(Len(qtrace), {"screenshot"})
    /\ traceQ = 2
    /\ Ended

ButtonOps == {"clickNext", "clickSubmit"}

\* the operation at position n >= 2 of qtrace may follow the one before it
FollowsInOrder(n) ==
    LET a == qtrace[n - 1]
        b == qtrace[n]
    IN  CASE a.op = "waitIdle" -> a.ok /\ b.op = "screenshot"
          [] a.op = "screenshot" -> a.ok /\ b.op = "writeFile"
          [] a.op = "writeFile" -> a.ok /\ b.op = "analyze"
          [] a.op = "analyze" -> a.ok /\ b.op \in {"clickOption"} \cup ButtonOps
          [] a.op = "clickOption" ->
                IF a.ok THEN b.op \in {"clickOption"} \cup ButtonOps
                        ELSE b.op = "errorShot"
          [] a.op = "errorShot" ->
                /\ a.ok
                /\ n >= 3 /\ qtrace[n - 2].op = "clickOption"
                /\ b.op \in {"clickOption"} \cup ButtonOps
          [] a.op = "clickNext" ->
                IF a.ok THEN b.op = "waitIdleAfterNext" ELSE b.op = "errorShot"
          [] a.op = "waitIdleAfterNext" ->
                IF a.ok THEN b.op = "settle" ELSE b.op = "errorShot"
          [] a.op = "settle" ->
                IF a.ok THEN b.op = "screenshotAfterNext" ELSE b.op = "errorShot"
          [] a.op = "screenshotAfterNext" ->
                IF a.ok THEN b.op = "writeAfterNext" ELSE b.op = "errorShot"
          [] a.op = "writeAfterNext" -> ~a.ok /\ b.op = "errorShot"
          [] a.op = "clickSubmit" -> ~a.ok /\ b.op = "errorShot"
          [] OTHER -> FALSE

\* C19: the operations of a question come in the fixed order idle wait,
\* screenshot, write, analysis, option clicks, Next or Submit click, each at
\* most once but for the option clicks, none before the one ahead of it has
\* succeeded; Next or Submit is clicked only once every answer of the
\* analysis has had its click attempted.
C19_StagesInOrder ==
    /\ qtrace # <<>> => qtrace[1].op = "waitIdle"
    /\ \A n \in 2..Len(qtrace) : FollowsInOrder(n)
    /\ \A n \in DOMAIN qtrace :
        qtrace[n].op \in ButtonOps =>
            Len(ClickedLabels(SubSeq(qtrace, 1, n)))
                = Len(SelectionTargets(ApplyFallback(parsedAnalysis)))

C19_Witness ==
    /\ Len(ClickedLabels(qtrace)) = 2
    /\ OptionClickFailed
    /\ qtrace[Len(qtrace)] = Ev("writeAfterNext", "", TRUE)

\* questions 1..n each have the recorded outcome "advanced", in order
AdvancedUpTo(n) ==
    /\ Len(diagnosticData) >= n
    /\ \A k \in 1..n : diagnosticData[k] = Outcome(k, "next_question_clicked")

\* C20: questions are started one at a time in the order 1, 2, ..., k with
\* k <= total; question n + 1 is started only when questions 1..n all have
\* the recorded outcome "advanced", and no index is started twice.
C20_SequentialAtMostOnce ==
    /\ [](/\ traceQ <= total
          /\ AdvancedUpTo(traceQ - 1))
    /\ [][traceQ' # traceQ =>
            /\ pc = "q_idle"
            /\ traceQ' = traceQ + 1
            /\ Len(diagnosticData) = traceQ
            /\ AdvancedUpTo(traceQ)]_vars

C20_Witness ==
    /\ traceQ = 3
    /\ pc = "q_shot"
    /\ AdvancedUpTo(2)

\* the awaits from the start click (278) to the end of handleDiagnostic
StartedPcs ==
    {"rs_start", "rs_startIdle", "hd_mkdir", "q_idle", "q_shot", "q_write", "q_llm",
     "q_option", "q_optionErr", "q_next", "q_nextIdle", "q_nextSettle", "q_nextShot",
     "q_nextWrite", "q_nextErr", "q_submit", "q_submitErr", "hd_catch"}

\* C21: the question count is read exactly once, before the start click and
\* before the first question step; from the start click on neither the count
\* nor the record of its reading changes.
C21_CountReadOnceBeforeStart ==
    /\ [](/\ pc \in StartedPcs => discovery # "unread"
          /\ qtrace # <<>> => discovery # "unread"
          /\ discovery = "unread" => total = 0)
    /\ [][countVars' # countVars =>
            /\ pc = "rs_count" /\ pc' = "rs_start"
            /\ discovery = "unread" /\ discovery' # "unread"
            /\ qtrace = <<>> /\ traceQ = 0 /\ i = 0]_vars

C21_Witness ==
    /\ discovery = "ok"
    /\ total = 3
    /\ traceQ = 2
    /\ pc = "q_llm"

\* the awaits of the question loop of handleDiagnostic (46-200)
QuestionPcs ==
    {"q_idle", "q_shot", "q_write", "q_llm", "q_option", "q_optionErr", "q_next",
     "q_nextIdle", "q_nextSettle", "q_nextShot", "q_nextWrite", "q_nextErr",
     "q_submit", "q_submitErr"}

\* the place of an await in the text of the run: the awaits outside the
\* question loop each have their own, in the order the code reaches them
StepRank(p) ==
    CASE p = "rs_mkdir" -> 0
      [] p = "lg_session" -> 1
      [] p = "lg_connect" -> 2
      [] p = "lg_page" -> 3
      [] p = "lg_catch" -> 4
      [] p = "rs_waitStart" -> 5
      [] p = "rs_count" -> 6
      [] p = "rs_start" -> 7
      [] p = "rs_startIdle" -> 8
      [] p = "hd_mkdir" -> 9
      [] p \in QuestionPcs -> 10
      [] p = "hd_catch" -> 11
      [] p = "rs_catch" -> 12
      [] p = "rs_finally" -> 13
      [] p = "done" -> 14

\* the number of attempts of operation op on question traceQ
Attempts(op) == Cardinality({n \in DOMAIN qtrace : qtrace[n].op = op})

\* the operation the step has just attempted on a question, if any
Attempted(op) ==
    /\ qtrace' # qtrace
    /\ qtrace'[Len(qtrace')].op = op

\* C22: nothing is retried.  The awaits outside the question loop, login and
\* the start click among them, are each passed at most once; the Submit click
\* is attempted at most once in a run; on each question the idle wait, the
\* analysis and the Next click are attempted at most once, and a question
\* once left is never taken up again.
C22_NoRetry ==
    /\ [](/\ \A op \in {"waitIdle", "analyze", "clickNext", "clickSubmit"} :
                Attempts(op) <= 1
          /\ Cardinality(submitAttempted) <= 1)
    /\ [][/\ pc' # pc =>
                \/ StepRank(pc') > StepRank(pc)
                \/ pc \in QuestionPcs /\ pc' \in QuestionPcs
          /\ qtrace' # qtrace =>
                \/ traceQ' = traceQ /\ Len(qtrace') = Len(qtrace) + 1
                                    /\ SubSeq(qtrace', 1, Len(qtrace)) = qtrace
                \/ traceQ' = traceQ + 1 /\ Len(qtrace') = 1
          /\ Attempted("clickSubmit") => submitAttempted = {}
          /\ Attempted("clickNext") => traceQ \notin advanceAttempted]_vars

C22_Witness ==
    /\ Ended
    /\ traceQ = 2
    /\ Attempts("clickNext") = 1
    /\ \E n \in DOMAIN qtrace : qtrace[n] = Ev("clickNext", "", FALSE)

\* the awaits of scraper.js that are idle waits, element waits, element
\* clicks or the call of the vision model
SuspensionPcs ==
    {"rs_waitStart", "rs_count", "rs_start", "rs_startIdle", "q_idle", "q_llm",
     "q_option", "q_next", "q_nextIdle", "q_nextSettle", "q_submit"}

\* C23: every idle wait, element wait, element click and analyzer call of a
\* run comes to an end, by its answer or by its timeout, whatever the page
\* and the analyzer do.
C23_EverySuspensionEnds ==
    \A p \in SuspensionPcs : (pc = p) ~> (pc # p)

\* what follows a successful Next click, in the order of 173-179
AfterNextOps == <<"waitIdleAfterNext", "settle", "screenshotAfterNext", "writeAfterNext">>

\* the trace tr ends with a successful Next click and, after it, the idle
\* wait, the settle delay, the screenshot and its write, all successful
EndsWithAdvance(tr) ==
    /\ Len(tr) >= 5
    /\ tr[Len(tr) - 4] = Ev("clickNext", "", TRUE)
    /\ \A k \in 1..4 : tr[Len(tr) - 4 + k] = Ev(AfterNextOps[k], "", TRUE)

\* an outcome is appended to the log by the step
OutcomeRecorded == Len(diagnosticData') = Len(diagnosticData) + 1

\* C24: what follows a successful Next click is the idle wait, then the
\* settle delay, then the screenshot, in that order; the outcome of the
\* question is recorded, and the next question begun, only once all of them
\* have happened.  A successful Submit click is the last operation on the
\* page: its outcome is recorded at once and the run goes to its cleanup.
C24_WaitsAfterAdvanceNoneAfterSubmit ==
    /\ [](\A n \in DOMAIN qtrace :
            /\ qtrace[n] = Ev("clickNext", "", TRUE) =>
                 \A k \in 1..4 :
                    n + k <= Len(qtrace) =>
                        /\ qtrace[n + k].op \in {AfterNextOps[k], "errorShot"}
                        /\ qtrace[n + k].op = "errorShot" =>
                              /\ n + k = Len(qtrace)
                              /\ ~qtrace[n + k - 1].ok
            /\ qtrace[n] = Ev("clickSubmit", "", TRUE) =>
                 /\ n = Len(qtrace)
                 /\ pc \in {"rs_finally", "done"}
                 /\ diagnosticData[Len(diagnosticData)] = Outcome(traceQ, "quiz_submitted"))
    /\ [][/\ OutcomeRecorded
                /\ diagnosticData'[Len(diagnosticData')].actionTaken = "next_question_clicked"
             => EndsWithAdvance(qtrace')
          /\ traceQ' # traceQ /\ traceQ >= 1 =>
                /\ EndsWithAdvance(qtrace)
                /\ Len(diagnosticData) = traceQ]_vars

C24_Witness ==
    /\ Ended
    /\ Len(diagnosticData) = 2
    /\ diagnosticData[1].actionTaken = "next_question_clicked"
    /\ qtrace[Len(qtrace)] = Ev("clickSubmit", "", TRUE)

\* the Next click of question traceQ was attempted and succeeded, or failed
NextClick(ok) == \E n \in DOMAIN qtrace : qtrace[n] = Ev("clickNext", "", ok)

\* C25: a question is treated as an advance failure only if its Next click
\* failed; a question whose Next click succeeded is in the outcome log as
\* advanced once the run has ended.
C25_AdvanceFailureOnlyIfClickFailed ==
    /\ actionTaken = "error_clicking_next" => NextClick(FALSE)
    /\ err = "next_click_failed" => NextClick(FALSE)
    /\ Ended /\ NextClick(TRUE) =>
          \E k \in DOMAIN diagnosticData :
              diagnosticData[k] = Outcome(traceQ, "next_question_clicked")

\* the operations of a question that are waits, captures (the screenshot and
\* its saving), the analysis, or the Next or Submit click
ListedOps ==
    {"waitIdle", "screenshot", "writeFile", "analyze", "errorShot", "clickNext",
     "waitIdleAfterNext", "settle", "screenshotAfterNext", "writeAfterNext",
     "clickSubmit"}

\* a wait, a capture, the analysis, the Next click or the Submit click has
\* failed; seen at the finally block, where err still holds what was thrown
\* before the question loop
ListedFailure ==
    \/ \E n \in DOMAIN qtrace : qtrace[n].op \in ListedOps /\ ~qtrace[n].ok
    \/ err \in {"wait_start", "start_idle"}

\* the start click (278) or the mkdir of handleDiagnostic (39) has failed
StartFailure ==
    \/ err = "start_click"
    \/ hdResult.kind = "threw" /\ qtrace = <<>>

\* handleDiagnostic has returned a log of total entries, all advanced but the
\* last, which is submitted
CompleteLog ==
    /\ hdResult = Returned(diagnosticData)
    /\ Len(diagnosticData) = total
    /\ \A k \in 1..(total - 1) : diagnosticData[k] = Outcome(k, "next_question_clicked")
    /\ diagnosticData[total] = Outcome(total, "quiz_submitted")

\* C26 as stated: if login succeeds and no wait, capture, analysis, Next click
\* or Submit click fails, the run comes to its cleanup with the quiz submitted
\* and a complete log.
C26_NoListedFailureCompletes ==
    pc = "rs_finally" /\ loginResult /\ ~ListedFailure => CompleteLog

\* C26: the same, for the runs in which the start click and the creation of
\* the screenshot directory do not fail either.
C26_NoFailureCompletes ==
    pc = "rs_finally" /\ loginResult /\ ~ListedFailure /\ ~StartFailure => CompleteLog

C26_Witness ==
    /\ pc = "rs_finally"
    /\ loginResult /\ ~ListedFailure /\ ~StartFailure
    /\ total = 3
    /\ OptionClickFailed

\* C27: every entry of the outcome log is advanced or submitted; an entry of
\* a question before the last is advanced; at most one entry is submitted,
\* and it is the entry of question total and the last of the log.
C27_LogHoldsOnlySuccesses ==
    /\ \A k \in DOMAIN diagnosticData :
        /\ diagnosticData[k].actionTaken \in {"next_question_clicked", "quiz_submitted"}
        /\ diagnosticData[k].questionIndex < total =>
              diagnosticData[k].actionTaken = "next_question_clicked"
        /\ diagnosticData[k].actionTaken = "quiz_submitted" =>
              /\ diagnosticData[k].questionIndex = total
              /\ k = Len(diagnosticData)
    /\ Cardinality({k \in DOMAIN diagnosticData :
                        diagnosticData[k].actionTaken = "quiz_submitted"}) <= 1

C27_Witness ==
    /\ pc = "rs_finally"
    /\ total = 3
    /\ Len(diagnosticData) = total
    /\ diagnosticData[total].actionTaken = "quiz_submitted"

\* the analysis classifies the question as single-choice
SingleChoice(a) == a.questionType \in {"multiple-choice-single", "multiple-choice"}

\* C28 as claimed: on a single-choice question a string answer gets exactly
\* one option click and an array answer none; more than one option click
\* happens on multi-choice questions only.
C28_SingleChoiceStringOneClick ==
    /\ SingleChoice(parsedAnalysis) =>
        /\ Len(ClickedLabels(qtrace)) <= 1
        /\ SelectionOver /\ parsedAnalysis.correctAnswer.t = "string" =>
              ClickedLabels(qtrace) = parsedAnalysis.correctAnswer.v
        /\ parsedAnalysis.correctAnswer.t = "array" => ClickedLabels(qtrace) = <<>>
    /\ Len(ClickedLabels(qtrace)) > 1 =>
          parsedAnalysis.questionType = "multiple-choice-multiple"

\* C28 as amended: the same, but the empty string, which is falsy at the test
\* of line 124, gets no click; exactly one click is for the non-empty strings.
C28_SingleChoiceNonEmptyStringOneClick ==
    /\ SingleChoice(parsedAnalysis) =>
        /\ Len(ClickedLabels(qtrace)) <= 1
        /\ SelectionOver /\ parsedAnalysis.correctAnswer.t = "string" =>
              ClickedLabels(qtrace) =
                 (IF parsedAnalysis.correctAnswer.v = <<"">>
                  THEN <<>> ELSE parsedAnalysis.correctAnswer.v)
        /\ parsedAnalysis.correctAnswer.t = "array" => ClickedLabels(qtrace) = <<>>
    /\ Len(ClickedLabels(qtrace)) > 1 =>
          parsedAnalysis.questionType = "multiple-choice-multiple"

C28_Witness ==
    /\ parsedAnalysis.questionType = "multiple-choice"
    /\ parsedAnalysis.correctAnswer = JsArray(<<"A", "B">>)
    /\ AtOrPastButton
    /\ ClickedLabels(qtrace) = <<>>

====
